---- MODULE Spec2Model ----
(***************************************************************************)
(* MockServer (src/lib/mock-ease.js): a builder around an express router.  *)
(* Configuration and binding calls push layers on the router, Start mounts *)
(* the router and listens, and every incoming request walks the router's   *)
(* layers in registration order.  A handler resolves its response from the *)
(* schema producer and hands it to SendResponseWithDelay, which writes it  *)
(* at once or from a setTimeout callback.                                  *)
(***************************************************************************)
EXTENDS Integers, Sequences, FiniteSets, TLC

\* An optional number parameter (maxResults?, delay?) that was not passed.
undefined == -1

\* Bounds of the model.
MaxStack == 2      \* layers on the router, a BindCrudRoutes call apart
MaxTimers == 2     \* setTimeout callbacks waiting at the same time

Methods == {"GET", "POST", "PUT", "DELETE", "PATCH"}

\* The header-key argument left out, and a header the request does not carry.
NoKey == "undefined"
NoHeader == "(none)"

VARIABLES
    router,        \* this.router's stack: gates and routes, in registration order
    _delay,        \* this._delay
    _routePrefix,  \* this._routePrefix, as path segments
    mounted,       \* <<>> until Start; then <<prefix the router was mounted under>>
    calls,         \* per schema producer, its invocations by the call that ran last
    timers,        \* the exchanges whose setTimeout callback has not run yet
    res,           \* the exchange the server acted on last
    listening,     \* whether the callback of server.listen has run
    log,           \* the route lines logRoutes printed in that callback
    op             \* what ran last: a builder call, a request, a callback, the clock

vars == <<router, _delay, _routePrefix, mounted, calls, timers, res, listening, log, op>>

Producers == {"A", "B"}

\* A schema producer that raises when it is invoked.
Raising == {"X"}

\* JavaScript truthiness of an optional number: `if (maxResults)`, `delay || ...`.
Truthy(x) == x # undefined /\ x # 0

\* What the n-th invocation of producer s by one handler run returns: producers
\* may be stateful (random data generators), so every invocation yields its
\* own value.
responseSchema(s, n) == [schema |-> s, n |-> n]

----------------------------------------------------------------------------
\* Layers of the router.

GateLayer(dummyToken, key) ==
    [kind |-> "use", method |-> "*", path |-> <<>>, schema |-> "",
     maxResults |-> undefined, delay |-> undefined,
     token |-> dummyToken, key |-> key]

RouteLayer(method, route, schema, maxResults, delay) ==
    [kind |-> "route", method |-> method, path |-> route, schema |-> schema,
     maxResults |-> maxResults, delay |-> delay, token |-> "", key |-> ""]

NoResponse == [array |-> FALSE, items |-> <<>>]
Unauthorized == [message |-> "Unauthorized"]

NoExchange ==
    [method |-> "", path |-> <<>>, headers |-> <<>>, seen |-> 0, gates |-> {},
     layer |-> 0, invoked |-> 0, response |-> NoResponse,
     deferred |-> FALSE, timerArg |-> undefined, g |-> 0,
     status |-> 0, body |-> NoResponse, writes |-> 0, wait |-> 0, held |-> 0]

NoCalls == [s \in Producers \cup Raising |-> 0]

Init ==
    /\ router = <<>>
    /\ _delay = 0
    /\ _routePrefix = <<>>
    /\ mounted = <<>>
    /\ calls = NoCalls
    /\ timers = <<>>
    /\ res = NoExchange
    /\ listening = FALSE
    /\ log = <<>>
    /\ op = [name |-> "CreateNewServer"]

----------------------------------------------------------------------------
\* Builder calls.

\* A SetDelay that starts the waiting responses over: it clears the timers.
SetDelayClearsTimers(delay) ==
    /\ _delay' = delay
    /\ timers' = <<>>
    /\ op' = [name |-> "SetDelay", delay |-> delay]
    /\ calls' = NoCalls
    /\ UNCHANGED <<router, _routePrefix, mounted, res, listening, log>>

SetDelay(delay) ==
    /\ _delay' = delay
    /\ op' = [name |-> "SetDelay", delay |-> delay]
    /\ calls' = NoCalls
    /\ UNCHANGED <<router, _routePrefix, mounted, timers, res, listening, log>>

SetRoutePrefix(prefix) ==
    /\ _routePrefix' = prefix
    /\ op' = [name |-> "SetRoutePrefix", prefix |-> prefix]
    /\ calls' = NoCalls
    /\ UNCHANGED <<router, _delay, mounted, timers, res, listening, log>>

EnableAuth(dummyToken, headerKey) ==
    LET key == IF headerKey = NoKey THEN "authorization" ELSE headerKey
    IN  /\ Len(router) < MaxStack
        /\ router' = Append(router, GateLayer(dummyToken, key))
        /\ op' = [name |-> "EnableAuth", token |-> dummyToken, key |-> headerKey]
        /\ calls' = NoCalls
        /\ UNCHANGED <<_delay, _routePrefix, mounted, timers, res, listening, log>>

BindNewGETRoute(route, schema, maxResults, delay) ==
    /\ Len(router) < MaxStack
    /\ router' = Append(router, RouteLayer("GET", route, schema, maxResults, delay))
    /\ op' = [name |-> "BindNewGETRoute"]
    /\ calls' = NoCalls
    /\ UNCHANGED <<_delay, _routePrefix, mounted, timers, res, listening, log>>

\* A POST binding that resolves the response when the route is bound.
BindNewPOSTRouteEager(route, schema, delay) ==
    /\ Len(router) < MaxStack
    /\ router' = Append(router, RouteLayer("POST", route, schema, undefined, delay))
    /\ op' = [name |-> "BindNewPOSTRoute"]
    /\ calls' = [NoCalls EXCEPT ![schema] = 1]
    /\ UNCHANGED <<_delay, _routePrefix, mounted, timers, res, listening, log>>

BindNewPOSTRoute(route, schema, delay) ==
    /\ Len(router) < MaxStack
    /\ router' = Append(router, RouteLayer("POST", route, schema, undefined, delay))
    /\ op' = [name |-> "BindNewPOSTRoute"]
    /\ calls' = NoCalls
    /\ UNCHANGED <<_delay, _routePrefix, mounted, timers, res, listening, log>>

BindNewPUTRoute(route, schema, delay) ==
    /\ Len(router) < MaxStack
    /\ router' = Append(router, RouteLayer("PUT", route, schema, undefined, delay))
    /\ op' = [name |-> "BindNewPUTRoute"]
    /\ calls' = NoCalls
    /\ UNCHANGED <<_delay, _routePrefix, mounted, timers, res, listening, log>>

BindNewDELETERoute(route, schema, delay) ==
    /\ Len(router) < MaxStack
    /\ router' = Append(router, RouteLayer("DELETE", route, schema, undefined, delay))
    /\ op' = [name |-> "BindNewDELETERoute"]
    /\ calls' = NoCalls
    /\ UNCHANGED <<_delay, _routePrefix, mounted, timers, res, listening, log>>

BindNewPATCHRoute(route, schema, delay) ==
    /\ Len(router) < MaxStack
    /\ router' = Append(router, RouteLayer("PATCH", route, schema, undefined, delay))
    /\ op' = [name |-> "BindNewPATCHRoute"]
    /\ calls' = NoCalls
    /\ UNCHANGED <<_delay, _routePrefix, mounted, timers, res, listening, log>>

\* A BindCrudRoutes that hands maxResults to the POST binding, where the POST
\* binding takes it for the delay.
BindCrudRoutesShifted(moduleName, schema, maxResults, delay) ==
    /\ Len(router) < MaxStack
    /\ router' = router \o
          << RouteLayer("GET", <<moduleName>>, schema, maxResults, delay),
             RouteLayer("POST", <<moduleName, "create">>, schema, undefined, maxResults),
             RouteLayer("PUT", <<moduleName, "update">>, schema, undefined, delay),
             RouteLayer("DELETE", <<moduleName, "delete">>, schema, undefined, delay),
             RouteLayer("PATCH", <<moduleName, "patch-update">>, schema, undefined, delay) >>
    /\ op' = [name |-> "BindCrudRoutes", moduleName |-> moduleName, schema |-> schema,
              maxResults |-> maxResults, delay |-> delay]
    /\ calls' = NoCalls
    /\ UNCHANGED <<_delay, _routePrefix, mounted, timers, res, listening, log>>

\* The five calls of BindCrudRoutes, in the order the code makes them.  The
\* call is made on a router that still has room for one layer.
BindCrudRoutes(moduleName, schema, maxResults, delay) ==
    /\ Len(router) < MaxStack
    /\ router' = router \o
          << RouteLayer("GET", <<moduleName>>, schema, maxResults, delay),
             RouteLayer("POST", <<moduleName, "create">>, schema, undefined, delay),
             RouteLayer("PUT", <<moduleName, "update">>, schema, undefined, delay),
             RouteLayer("DELETE", <<moduleName, "delete">>, schema, undefined, delay),
             RouteLayer("PATCH", <<moduleName, "patch-update">>, schema, undefined, delay) >>
    /\ op' = [name |-> "BindCrudRoutes", moduleName |-> moduleName, schema |-> schema,
              maxResults |-> maxResults, delay |-> delay]
    /\ calls' = NoCalls
    /\ UNCHANGED <<_delay, _routePrefix, mounted, timers, res, listening, log>>

\* A Start that mounts the router at the root: server.use(this.router).
StartAtRoot ==
    /\ mounted = <<>>
    /\ mounted' = << <<>> >>
    /\ op' = [name |-> "Start"]
    /\ calls' = NoCalls
    /\ UNCHANGED <<router, _delay, _routePrefix, timers, res, listening, log>>

\* server.use(this._routePrefix, this.router); server.listen(port).  The mount
\* keeps a reference to the router, so later layers are seen by later requests.
\* The builder is started once (Unstarted -> Started).
Start ==
    /\ mounted = <<>>
    /\ mounted' = <<_routePrefix>>
    /\ op' = [name |-> "Start"]
    /\ calls' = NoCalls
    /\ UNCHANGED <<router, _delay, _routePrefix, timers, res, listening, log>>

\* join(...path) with the separators turned to "/": on path segments, the
\* segments of the first path followed by those of the second.
joinPath(prefix, path) == prefix \o path

\* method.padEnd(n, ' ')
RECURSIVE padEnd(_, _)
padEnd(method, n) == IF Len(method) >= n THEN method ELSE padEnd(method \o " ", n)

IsRoute(layer) == layer.kind = "route"

\* A sequence without the elements that repeat an earlier one.
RECURSIVE Deduplicated(_)
Deduplicated(lines) ==
    IF lines = <<>>
    THEN <<>>
    ELSE LET front == Deduplicated(SubSeq(lines, 1, Len(lines) - 1))
             last == lines[Len(lines)]
         IN  IF \E j \in 1..Len(front) : front[j] = last
             THEN front
             ELSE Append(front, last)

\* A route table that prints each method and path once.
logRoutesDeduplicated ==
    LET routes == SelectSeq(router, IsRoute)
    IN  Deduplicated([i \in 1..Len(routes) |->
            [method |-> padEnd(routes[i].method, 6),
             path |-> joinPath(_routePrefix, routes[i].path)]])

\* logRoutes: one line per route of the mounted router, in stack order, the
\* method padded to six characters and the path joined to this._routePrefix
\* as it is when the lines are printed.  Gates have no route and print nothing.
logRoutes ==
    LET routes == SelectSeq(router, IsRoute)
    IN  [i \in 1..Len(routes) |->
            [method |-> padEnd(routes[i].method, 6),
             path |-> joinPath(_routePrefix, routes[i].path)]]

\* The callback of server.listen, run once the port is bound and before any
\* request is taken: it prints the banner and the route table.
Listening ==
    /\ mounted # <<>>
    /\ ~listening
    /\ listening' = TRUE
    /\ log' = logRoutes
    /\ op' = [name |-> "listening", after |-> op.name]
    /\ calls' = NoCalls
    /\ UNCHANGED <<router, _delay, _routePrefix, mounted, timers, res>>

----------------------------------------------------------------------------
\* Request handling.

\* A gate that lets every request through that carries the header at all.
AuthGateAnyValue(dummyToken, key, headers) ==
    IF headers[key] # NoHeader THEN "next" ELSE "401"

\* A gate that knows the "Bearer " form only.
AuthGateBearerOnly(dummyToken, key, headers) ==
    IF headers[key] = "Bearer " \o dummyToken THEN "next" ELSE "401"

\* The gate's comparison: strict equality with the bare token or "Bearer " + token.
AuthGate(dummyToken, key, headers) ==
    IF headers[key] = "Bearer " \o dummyToken \/ headers[key] = dummyToken
    THEN "next"
    ELSE "401"

\* A GET handler that keeps its first invocation in the array.
GETHandlerKeepFirst(schema, maxResults) ==
    IF Truthy(maxResults)
    THEN [invoked |-> 1 + maxResults, threw |-> FALSE,
          response |-> [array |-> TRUE,
                        items |-> [i \in 1..(1 + maxResults) |->
                                      responseSchema(schema, i)]]]
    ELSE [invoked |-> 1, threw |-> FALSE,
          response |-> [array |-> FALSE, items |-> <<responseSchema(schema, 1)>>]]

\* A GET handler that takes every maxResults that was passed, 0 included, for
\* the list form: `if (maxResults !== undefined)`.
GETHandlerListWhenPassed(schema, maxResults) ==
    IF schema \in Raising
    THEN [invoked |-> 1, threw |-> TRUE, response |-> NoResponse]
    ELSE IF maxResults # undefined
    THEN [invoked |-> 1 + maxResults, threw |-> FALSE,
          response |-> [array |-> TRUE,
                        items |-> [i \in 1..maxResults |->
                                      responseSchema(schema, 1 + i)]]]
    ELSE [invoked |-> 1, threw |-> FALSE,
          response |-> [array |-> FALSE, items |-> <<responseSchema(schema, 1)>>]]

\* A GET handler that catches what the producer raises and sends an empty
\* response.
GETHandlerCatches(schema, maxResults) ==
    IF schema \in Raising
    THEN [invoked |-> 1, threw |-> FALSE, response |-> NoResponse]
    ELSE IF Truthy(maxResults)
    THEN [invoked |-> 1 + maxResults, threw |-> FALSE,
          response |-> [array |-> TRUE,
                        items |-> [i \in 1..maxResults |->
                                      responseSchema(schema, 1 + i)]]]
    ELSE [invoked |-> 1, threw |-> FALSE,
          response |-> [array |-> FALSE, items |-> <<responseSchema(schema, 1)>>]]

\* The GET handler: one invocation, and with a truthy maxResults an array of
\* maxResults further invocations in its place.  Nothing in the handler
\* catches: a producer that raises ends the handler at its first invocation.
GETHandler(schema, maxResults) ==
    LET response == responseSchema(schema, 1)
    IN  IF schema \in Raising
        THEN [invoked |-> 1, threw |-> TRUE, response |-> NoResponse]
        ELSE IF Truthy(maxResults)
        THEN [invoked |-> 1 + maxResults, threw |-> FALSE,
              response |-> [array |-> TRUE,
                            items |-> [i \in 1..maxResults |->
                                          responseSchema(schema, 1 + i)]]]
        ELSE [invoked |-> 1, threw |-> FALSE,
              response |-> [array |-> FALSE, items |-> <<response>>]]

\* The POST, PUT, DELETE and PATCH handlers: one invocation.
Handler(schema) ==
    IF schema \in Raising
    THEN [invoked |-> 1, threw |-> TRUE, response |-> NoResponse]
    ELSE [invoked |-> 1, threw |-> FALSE,
          response |-> [array |-> FALSE, items |-> <<responseSchema(schema, 1)>>]]

\* A send whose timer runs for the server-level delay whenever one is set.
SendResponseWithDelayGlobalFirst(delay, g) ==
    IF Truthy(delay) \/ Truthy(g)
    THEN [deferred |-> TRUE, timerArg |-> IF Truthy(g) THEN g ELSE delay]
    ELSE [deferred |-> FALSE, timerArg |-> undefined]

\* A send that always goes through a timer.
SendResponseWithDelayAlways(delay, g) ==
    [deferred |-> TRUE, timerArg |-> delay]

\* A send that hands an undelayed response to setTimeout(send, 0).
SendResponseWithDelayZeroTimer(delay, g) ==
    IF Truthy(delay) \/ Truthy(g)
    THEN [deferred |-> TRUE, timerArg |-> delay]
    ELSE [deferred |-> TRUE, timerArg |-> 0]

\* if (delay || this._delay) setTimeout(send, delay) else send.
SendResponseWithDelay(delay, g) ==
    IF Truthy(delay) \/ Truthy(g)
    THEN [deferred |-> TRUE, timerArg |-> delay]
    ELSE [deferred |-> FALSE, timerArg |-> undefined]

\* The milliseconds setTimeout(callback, ms) waits: a missing ms, or one below
\* 1, is taken as 1.
setTimeout(ms) == IF ms = undefined \/ ms < 1 THEN 1 ELSE ms

IsPrefix(p, s) == Len(p) <= Len(s) /\ SubSeq(s, 1, Len(p)) = p

\* A dispatch over a router frozen when the server began to listen: a route
\* that the route table does not list is passed over.
RECURSIVE DispatchListed(_, _, _, _, _)
DispatchListed(i, method, rest, headers, gates) ==
    IF i > Len(router)
    THEN [gates |-> gates, layer |-> 0, status |-> 404, writes |-> 0]
    ELSE IF router[i].kind = "use"
         THEN IF AuthGate(router[i].token, router[i].key, headers) = "next"
              THEN DispatchListed(i + 1, method, rest, headers, gates \cup {i})
              ELSE [gates |-> gates \cup {i}, layer |-> 0, status |-> 401,
                    writes |-> 1]
         ELSE IF /\ router[i].method = method
                 /\ router[i].path = rest
                 /\ Len(SelectSeq(SubSeq(router, 1, i), IsRoute)) <= Len(log)
              THEN [gates |-> gates, layer |-> i, status |-> 200, writes |-> 0]
              ELSE DispatchListed(i + 1, method, rest, headers, gates)

\* A dispatch whose gate answers 401 and passes the request on all the same.
RECURSIVE DispatchFallThrough(_, _, _, _, _)
DispatchFallThrough(i, method, rest, headers, gates) ==
    IF i > Len(router)
    THEN [gates |-> gates, layer |-> 0, status |-> 404, writes |-> 0]
    ELSE IF router[i].kind = "use"
         THEN LET d == DispatchFallThrough(i + 1, method, rest, headers,
                                           gates \cup {i})
              IN  IF AuthGate(router[i].token, router[i].key, headers) = "next"
                  THEN d
                  ELSE IF d.layer = 0
                  THEN [d EXCEPT !.status = 401, !.writes = 1]
                  ELSE [d EXCEPT !.writes = @ + 1]
         ELSE IF router[i].method = method /\ router[i].path = rest
              THEN [gates |-> gates, layer |-> i, status |-> 200, writes |-> 0]
              ELSE DispatchFallThrough(i + 1, method, rest, headers, gates)

\* The router's dispatch from layer i on: a gate answers 401 or passes the
\* request on; a route whose method and path match runs its handler, which
\* never passes the request on; past the last layer nothing matched.  writes
\* counts the responses the layers walked have written.
RECURSIVE Dispatch(_, _, _, _, _)
Dispatch(i, method, rest, headers, gates) ==
    IF i > Len(router)
    THEN [gates |-> gates, layer |-> 0, status |-> 404, writes |-> 0]
    ELSE IF router[i].kind = "use"
         THEN IF AuthGate(router[i].token, router[i].key, headers) = "next"
              THEN Dispatch(i + 1, method, rest, headers, gates \cup {i})
              ELSE [gates |-> gates \cup {i}, layer |-> 0, status |-> 401,
                    writes |-> 1]
         ELSE IF router[i].method = method /\ router[i].path = rest
              THEN [gates |-> gates, layer |-> i, status |-> 200, writes |-> 0]
              ELSE Dispatch(i + 1, method, rest, headers, gates)

\* An incoming request, handled to the point where its handler returns.  A
\* request no layer answered is answered by the framework: 404 when nothing
\* matched, 500 when the handler raised.
Request(method, path, headers) ==
    /\ listening
    /\ LET prefix == mounted[1]
           d == IF IsPrefix(prefix, path)
                THEN Dispatch(1, method, SubSeq(path, Len(prefix) + 1, Len(path)),
                              headers, {})
                ELSE [gates |-> {}, layer |-> 0, status |-> 404, writes |-> 0]
           req == [NoExchange EXCEPT !.method = method, !.path = path,
                      !.headers = headers, !.seen = Len(router),
                      !.gates = d.gates, !.layer = d.layer, !.g = _delay,
                      !.writes = d.writes]
       IN  IF d.layer = 0
           THEN /\ res' = [req EXCEPT !.status = d.status,
                              !.body = IF d.status = 401 THEN Unauthorized
                                       ELSE NoResponse,
                              !.writes = IF d.status = 404 THEN @ + 1 ELSE @]
                /\ calls' = NoCalls
                /\ timers' = timers
           ELSE LET L == router[d.layer]
                    h == IF L.method = "GET"
                         THEN GETHandler(L.schema, L.maxResults)
                         ELSE Handler(L.schema)
                    s == SendResponseWithDelay(L.delay, _delay)
                    x == [req EXCEPT !.invoked = h.invoked,
                             !.response = h.response, !.deferred = s.deferred,
                             !.timerArg = s.timerArg]
                IN  /\ calls' = [NoCalls EXCEPT ![L.schema] = h.invoked]
                    /\ IF h.threw
                       THEN /\ res' = [req EXCEPT !.invoked = h.invoked,
                                          !.status = 500, !.writes = @ + 1]
                            /\ timers' = timers
                       ELSE IF s.deferred
                       THEN /\ Len(timers) < MaxTimers
                            /\ timers' = Append(timers,
                                   [x EXCEPT !.wait = setTimeout(s.timerArg)])
                            /\ res' = x
                       ELSE /\ res' = [x EXCEPT !.status = 200, !.body = h.response,
                                          !.writes = @ + 1]
                            /\ timers' = timers
    /\ op' = [name |-> "Request"]
    /\ UNCHANGED <<router, _delay, _routePrefix, mounted, listening, log>>

\* A millisecond passes while callbacks wait; a callback runs in the
\* millisecond it falls due.
Tick ==
    /\ timers # <<>>
    /\ \A i \in 1..Len(timers) : timers[i].wait > 0
    /\ timers' = [i \in 1..Len(timers) |->
                     [timers[i] EXCEPT !.wait = @ - 1, !.held = @ + 1]]
    /\ calls' = NoCalls
    /\ op' = [name |-> "Tick"]
    /\ UNCHANGED <<router, _delay, _routePrefix, mounted, res, listening, log>>

\* A callback that resolves the response when the timer fires: it invokes the
\* producer again and sends what that returns.
TimerFireLazy(i) ==
    /\ i \in 1..Len(timers)
    /\ timers[i].wait = 0
    /\ LET schema == router[timers[i].layer].schema
           late == [array |-> FALSE,
                    items |-> <<responseSchema(schema, timers[i].invoked + 1)>>]
       IN  /\ res' = [timers[i] EXCEPT !.status = 200, !.body = late,
                         !.invoked = @ + 1, !.writes = @ + 1]
           /\ calls' = [NoCalls EXCEPT ![schema] = 1]
    /\ timers' = SubSeq(timers, 1, i - 1) \o SubSeq(timers, i + 1, Len(timers))
    /\ op' = [name |-> "callback"]
    /\ UNCHANGED <<router, _delay, _routePrefix, mounted, listening, log>>

\* The setTimeout callback: res.status(200).json(response).
TimerFire(i) ==
    /\ i \in 1..Len(timers)
    /\ timers[i].wait = 0
    /\ res' = [timers[i] EXCEPT !.status = 200, !.body = timers[i].response,
                  !.writes = @ + 1]
    /\ timers' = SubSeq(timers, 1, i - 1) \o SubSeq(timers, i + 1, Len(timers))
    /\ calls' = NoCalls
    /\ op' = [name |-> "callback"]
    /\ UNCHANGED <<router, _delay, _routePrefix, mounted, listening, log>>

----------------------------------------------------------------------------
\* The auth gate ahead of every kind of route: a server built from EnableAuth
\* and the five Bind calls in any order, and requests of every method with
\* every value of the authorization header.

BearerHeaders ==
    { [h \in {"authorization"} |-> a] :
      a \in {NoHeader, "t1", "Bearer t1", "bearer t1"} }

NextAuth ==
    \/ EnableAuth("t1", NoKey)
    \/ BindNewGETRoute(<<"a">>, "A", undefined, undefined)
    \/ BindNewPOSTRoute(<<"a">>, "A", undefined)
    \/ BindNewPUTRoute(<<"a">>, "A", undefined)
    \/ BindNewDELETERoute(<<"a">>, "A", undefined)
    \/ BindNewPATCHRoute(<<"a">>, "A", undefined)
    \/ Start
    \/ Listening
    \/ \E m \in Methods, h \in BearerHeaders : Request(m, <<"a">>, h)

SpecAuth == Init /\ [][NextAuth]_vars

\* Gates on two header keys: a server built from two kinds of EnableAuth call
\* and GET and POST bindings in any order, and requests of every method with
\* every combination of the two headers.

AuthHeaders ==
    { [h \in {"authorization", "x-key"} |->
          IF h = "authorization" THEN a ELSE k] :
      a \in {NoHeader, "t1", "Bearer t1", "bearer t1"}, k \in {NoHeader, "t2"} }

NextGates ==
    \/ EnableAuth("t1", NoKey)
    \/ EnableAuth("t2", "x-key")
    \/ BindNewGETRoute(<<"a">>, "A", undefined, undefined)
    \/ BindNewPOSTRoute(<<"a">>, "A", undefined)
    \/ Start
    \/ Listening
    \/ \E m \in Methods, h \in AuthHeaders : Request(m, <<"a">>, h)

SpecGates == Init /\ [][NextGates]_vars

\* Every exchange the server still knows: the last one and the waiting ones.
Exchanges == {res} \cup {timers[i] : i \in 1..Len(timers)}

\* The path a request asked for, below the prefix the router is mounted under.
Below(x) == SubSeq(x.path, Len(mounted[1]) + 1, Len(x.path))

\* C1: a request that a gate evaluates with the header missing, or neither the
\* token nor "Bearer " + token, is answered 401 {message: "Unauthorized"}, and
\* no handler runs for it: the schema producer is invoked zero times.
C1_GateRejects ==
    \A x \in Exchanges : \A i \in x.gates :
        LET v == x.headers[router[i].key]
        IN  (v = NoHeader \/ (v # router[i].token /\ v # "Bearer " \o router[i].token))
            => /\ x.status = 401
               /\ x.body = [message |-> "Unauthorized"]
               /\ x.layer = 0
               /\ x.invoked = 0

\* C1's case: a gate turned away a request for which a route was bound.
C1_Witness ==
    /\ res.status = 401
    /\ res.gates # {}
    /\ \E j \in 1..res.seen :
          /\ router[j].kind = "route"
          /\ router[j].method = res.method
          /\ router[j].path = Below(res)

\* C2: whatever the order of EnableAuth and the Bind calls, a handler runs
\* only for a request that every installed gate evaluated and let through.
C2_GateAheadOfAllRoutes ==
    \A x \in Exchanges :
        x.layer # 0 =>
            \A i \in 1..x.seen :
                router[i].kind = "use" =>
                    /\ i \in x.gates
                    /\ x.headers[router[i].key] \in
                          {router[i].token, "Bearer " \o router[i].token}

\* C3: with auth enabled, a request of any method to a bound route whose
\* header is the token or "Bearer " + token for the installed gates runs the
\* route's handler and is answered 200 with the value the handler resolved.
C3_TokenReachesHandler ==
    \A x \in Exchanges :
        ( /\ x.method \in Methods
          /\ \E i \in 1..x.seen : router[i].kind = "use"
          /\ \A i \in 1..x.seen :
                router[i].kind = "use" =>
                    \/ x.headers[router[i].key] = router[i].token
                    \/ x.headers[router[i].key] = "Bearer " \o router[i].token
          /\ \E j \in 1..x.seen :
                /\ router[j].kind = "route"
                /\ router[j].method = x.method
                /\ router[j].path = Below(x) )
        => /\ x.layer # 0
           /\ router[x.layer].method = x.method
           /\ router[x.layer].path = Below(x)
           /\ x.invoked >= 1
           /\ x.response.items # <<>>
           /\ \A k \in 1..Len(x.response.items) :
                 x.response.items[k].schema = router[x.layer].schema
           /\ \/ x.status = 200 /\ x.body = x.response
              \/ x.status = 0 /\ x.deferred

\* C3's case: a gate was passed with the "Bearer " form and the answer is 200.
C3_Witness ==
    /\ res.status = 200
    /\ \E i \in res.gates : res.headers[router[i].key] = "Bearer " \o router[i].token
    /\ res.method = "PATCH"

----------------------------------------------------------------------------
\* Response resolution: routes of every method, GET with and without
\* maxResults, and requests to them.

NextGet ==
    \/ \E s \in Producers, n \in {undefined, 0, 1, 2, 3} :
          BindNewGETRoute(<<"a">>, s, n, undefined)
    \/ BindNewPOSTRoute(<<"a">>, "A", undefined)
    \/ BindNewPUTRoute(<<"a">>, "B", undefined)
    \/ BindNewDELETERoute(<<"a">>, "A", undefined)
    \/ BindNewPATCHRoute(<<"a">>, "B", undefined)
    \/ Start
    \/ Listening
    \/ \E m \in Methods : Request(m, <<"a">>, [h \in {"authorization"} |-> NoHeader])

SpecGet == Init /\ [][NextGet]_vars

\* C4: a GET route bound with maxResults = N >= 1 invokes the schema producer
\* exactly N times per request and answers with those N results in
\* invocation order.
C4_ExactlyNInvocations ==
    \A x \in Exchanges :
        (x.layer # 0 /\ router[x.layer].method = "GET" /\ router[x.layer].maxResults >= 1)
        => LET N == router[x.layer].maxResults
           IN  /\ x.invoked = N
               /\ x.response.items =
                     [i \in 1..N |-> [schema |-> router[x.layer].schema, n |-> i]]

\* C5: a GET route bound with maxResults = N >= 1 answers every request that
\* reaches its handler with an array of exactly N elements.
C5_ArrayOfLengthN ==
    \A x \in Exchanges :
        (x.layer # 0 /\ router[x.layer].method = "GET" /\ router[x.layer].maxResults >= 1)
        => /\ x.response.array
           /\ Len(x.response.items) = router[x.layer].maxResults
           /\ x.status = 200 =>
                 /\ x.body.array
                 /\ Len(x.body.items) = router[x.layer].maxResults

\* C5's case: a GET route with maxResults = 3 answered a request.
C5_Witness ==
    /\ res.status = 200
    /\ res.layer # 0
    /\ router[res.layer].method = "GET"
    /\ router[res.layer].maxResults = 3
    /\ Len(res.body.items) = 3

BindNames ==
    {"BindNewGETRoute", "BindNewPOSTRoute", "BindNewPUTRoute", "BindNewDELETERoute",
     "BindNewPATCHRoute", "BindCrudRoutes"}

\* C6: a GET route without maxResults, and every POST, PUT, DELETE and PATCH
\* route, invokes the schema producer exactly once per request, when the
\* request is handled, and answers with that one value, not a sequence; a
\* bind call invokes no producer.
C6_OneInvocationPerRequest ==
    /\ op.name \in BindNames => \A s \in Producers : calls[s] = 0
    /\ \A x \in Exchanges :
          ( /\ x.layer # 0
            /\ \/ router[x.layer].method \in {"POST", "PUT", "DELETE", "PATCH"}
               \/ router[x.layer].method = "GET" /\ router[x.layer].maxResults = undefined )
          => /\ x.invoked = 1
             /\ ~x.response.array
             /\ x.response.items = <<[schema |-> router[x.layer].schema, n |-> 1]>>
             /\ x.status = 200 => x.body = x.response
    /\ (op.name = "Request" /\ res.layer # 0)
          => \A s \in Producers :
                calls[s] = IF s = router[res.layer].schema THEN res.invoked ELSE 0

\* C6's case: a DELETE route answered a request with its one value.
C6_Witness ==
    /\ op.name = "Request"
    /\ res.status = 200
    /\ res.method = "DELETE"
    /\ calls["A"] = 1
    /\ Len(res.body.items) = 1

----------------------------------------------------------------------------
\* Response delay: a server-level delay set and reset at any time, routes
\* with and without a delay of their own, requests, the clock and the
\* setTimeout callbacks.

NoHeaders == [h \in {"authorization"} |-> NoHeader]

NextDelay ==
    \/ \E g \in {0, 3} : SetDelay(g)
    \/ \E d \in {undefined, 2} : BindNewGETRoute(<<"a">>, "A", undefined, d)
    \/ BindNewPOSTRoute(<<"a">>, "B", 0)
    \/ Start
    \/ Listening
    \/ \E m \in {"GET", "POST"} : Request(m, <<"a">>, NoHeaders)
    \/ Tick
    \/ \E i \in 1..MaxTimers : TimerFire(i)

SpecDelay == Init /\ [][NextDelay]_vars

\* C7: with a server-level delay g > 0 set, a request to a route bound
\* without a delay of its own is answered no sooner than g milliseconds after
\* its handler ran.
C7_ServerDelayApplied ==
    \A x \in Exchanges :
        ( /\ x.layer # 0
          /\ router[x.layer].delay = undefined
          /\ x.g > 0 )
        => (x.status = 200 => x.held >= x.g)

\* C8: a route bound with a delay d of its own answers by a timer of d
\* milliseconds whatever the server-level delay g is: a timer this send starts
\* runs for d, never for g, a d above 0 always starts one, and the response is
\* sent no sooner than d milliseconds after the handler ran.
C8_RouteDelayOverrides ==
    \A x \in Exchanges :
        (x.layer # 0 /\ router[x.layer].delay # undefined)
        => LET d == router[x.layer].delay
           IN  /\ x.deferred => x.timerArg = d
               /\ d > 0 => x.deferred
               /\ x.status = 200 => x.held >= d /\ x.body = x.response
               /\ x.status # 200 => x.status = 0 /\ x.deferred
               /\ \A i \in 1..Len(timers) :
                     (timers[i] = x /\ d > 0) => x.wait + x.held = d

\* C8's case: a route with delay 2 answered while the server-level delay was 3.
C8_Witness ==
    /\ op.name = "callback"
    /\ res.status = 200
    /\ res.layer # 0
    /\ router[res.layer].delay = 2
    /\ res.g = 3
    /\ res.held = 2

\* C9: a request to a non-delayed route that is handled while another
\* request waits out its delay is answered in the same step, ahead of the
\* waiting response, and leaves the waiting exchanges as they were.
C9_DelayDoesNotBlock ==
    [][ ( /\ timers # <<>>
          /\ op'.name = "Request"
          /\ res'.layer # 0
          /\ router[res'.layer].delay \in {undefined, 0}
          /\ res'.g = 0 )
        => /\ res'.status = 200
           /\ res'.body = res'.response
           /\ res'.held = 0
           /\ timers' = timers
           /\ \A i \in 1..Len(timers) : timers[i].status = 0 ]_vars

\* C9's case: a POST was answered while an earlier GET still waits for its timer.
C9_Witness ==
    /\ op.name = "Request"
    /\ res.status = 200
    /\ res.method = "POST"
    /\ \E i \in 1..Len(timers) :
          /\ timers[i].method = "GET"
          /\ timers[i].status = 0
          /\ timers[i].wait > 0
          /\ timers[i].held > 0

----------------------------------------------------------------------------
\* BindCrudRoutes among the other builder calls.

NextCrud ==
    \/ \E m \in {"users", "posts"}, s \in Producers, n \in {undefined, 2},
          d \in {undefined, 5} : BindCrudRoutes(m, s, n, d)
    \/ BindNewGETRoute(<<"users">>, "B", undefined, undefined)
    \/ EnableAuth("t1", NoKey)
    \/ \E prefix \in {<<>>, <<"api">>} : SetRoutePrefix(prefix)
    \/ Start
    \/ Listening

SpecCrud == Init /\ [][NextCrud]_vars

\* C10: BindCrudRoutes(moduleName, schema, maxResults, delay) adds exactly
\* five routes, GET /m, POST /m/create, PUT /m/update, DELETE /m/delete and
\* PATCH /m/patch-update in this order, all with the same schema producer and
\* delay, and maxResults on the GET route only.
C10_FiveCrudRoutes ==
    [][ op'.name = "BindCrudRoutes"
        => LET m == op'.moduleName
               R(method, path, maxResults) ==
                   [kind |-> "route", method |-> method, path |-> path,
                    schema |-> op'.schema, maxResults |-> maxResults,
                    delay |-> op'.delay, token |-> "", key |-> ""]
           IN  router' = router \o
                  << R("GET", <<m>>, op'.maxResults),
                     R("POST", <<m, "create">>, undefined),
                     R("PUT", <<m, "update">>, undefined),
                     R("DELETE", <<m, "delete">>, undefined),
                     R("PATCH", <<m, "patch-update">>, undefined) >> ]_vars

\* C10's case: BindCrudRoutes ran with a maxResults and a delay on a router
\* that already held a layer.
C10_Witness ==
    /\ op.name = "BindCrudRoutes"
    /\ op.maxResults = 2
    /\ op.delay = 5
    /\ Len(router) = 6
    /\ router[6].method = "PATCH"

----------------------------------------------------------------------------
\* The route prefix and the startup log: routes bound at "/test" and
\* "/api/test" behind a prefix of "" or "/api", a gate, and requests to the
\* paths these can make.

TokenHeaders == { [h \in {"authorization"} |-> a] : a \in {NoHeader, "t1"} }

NextPrefix ==
    \/ \E prefix \in {<<>>, <<"api">>} : SetRoutePrefix(prefix)
    \/ \E route \in {<<"test">>, <<"api", "test">>} :
          BindNewGETRoute(route, "A", undefined, undefined)
    \/ BindNewPOSTRoute(<<"test">>, "B", undefined)
    \/ EnableAuth("t1", NoKey)
    \/ Start
    \/ Listening
    \/ \E m \in {"GET", "POST"}, h \in TokenHeaders,
          path \in {<<"test">>, <<"api", "test">>, <<"api", "api", "test">>} :
          Request(m, path, h)

SpecPrefix == Init /\ [][NextPrefix]_vars

\* The routes of the router, in registration order.
Routes == SelectSeq(router, IsRoute)

\* C11: for a server that is configured, started and listening, the first
\* request finds every bound route at the configured prefix joined with the
\* route's pattern and nowhere else: the route table shows that path, a
\* request to it that the gates let through runs the handler, and a request
\* to any other path (the bare pattern, say) runs no handler.
C11_PrefixIsApplied ==
    [][ (op.name = "listening" /\ op.after = "Start" /\ op'.name = "Request")
        => /\ Len(log) = Len(Routes)
           /\ \A k \in 1..Len(log) :
                 log[k].path = _routePrefix \o Routes[k].path
           /\ res'.layer # 0 =>
                 res'.path = _routePrefix \o router[res'.layer].path
           /\ ( /\ \E j \in 1..Len(router) :
                      /\ router[j].kind = "route"
                      /\ router[j].method = res'.method
                      /\ _routePrefix \o router[j].path = res'.path
                /\ \A i \in 1..Len(router) :
                      router[i].kind = "use" =>
                          res'.headers[router[i].key] = router[i].token )
              => res'.layer # 0 /\ res'.status = 200 ]_vars

\* C11's case: behind the prefix "/api" the route bound at "/test" was
\* logged as "/api/test" and a request to "/api/test" ran its handler.
C11_Witness ==
    /\ mounted = << <<"api">> >>
    /\ _routePrefix = <<"api">>
    /\ log # <<>>
    /\ log[1].path = <<"api", "test">>
    /\ res.path = <<"api", "test">>
    /\ res.layer # 0
    /\ router[res.layer].path = <<"test">>
    /\ res.status = 200

\* The method column of the route table: the method name padded with spaces
\* to six characters.
MethodColumn ==
    [m \in Methods |->
        CASE m = "GET" -> "GET   "
          [] m = "POST" -> "POST  "
          [] m = "PUT" -> "PUT   "
          [] m = "DELETE" -> "DELETE"
          [] m = "PATCH" -> "PATCH "]

\* C12: when the listen callback follows Start directly, the route table has
\* exactly one line per binding, in registration order, each with the
\* binding's method and its prefix joined with its pattern; a method and path
\* bound twice is printed twice, and a gate prints nothing.
C12_OneLinePerBinding ==
    (op.name = "listening" /\ op.after = "Start")
    => /\ Len(log) = Cardinality({i \in 1..Len(router) : router[i].kind = "route"})
       /\ \A k \in 1..Len(log) :
             \E i \in 1..Len(router) :
                /\ router[i].kind = "route"
                /\ Cardinality({j \in 1..i : router[j].kind = "route"}) = k
                /\ log[k].method = MethodColumn[router[i].method]
                /\ log[k].path = _routePrefix \o router[i].path

\* C12's case: the same method and path were bound twice behind "/api" and
\* the table printed right after Start shows the line twice.
C12_Witness ==
    /\ op.name = "listening"
    /\ op.after = "Start"
    /\ Len(log) = 2
    /\ log[1] = log[2]
    /\ log[1] = [method |-> "GET   ", path |-> <<"api", "test">>]

----------------------------------------------------------------------------
\* Several gates.

\* C13: the gates compose with AND: a request that fails the comparison of
\* any one installed gate is answered 401 and reaches no handler, so a
\* handler runs only for a request that passes every gate.
C13_EveryGateMustPass ==
    \A x \in Exchanges :
        \A i \in 1..x.seen :
            ( /\ router[i].kind = "use"
              /\ x.headers[router[i].key] # router[i].token
              /\ x.headers[router[i].key] # "Bearer " \o router[i].token )
            => x.status = 401 /\ x.layer = 0

----------------------------------------------------------------------------
\* Routes bound on a started server.

\* The routes a request matches: its method, and its path the mount prefix
\* joined with the route's pattern.
Matching(x) ==
    {j \in 1..x.seen :
        /\ router[j].kind = "route"
        /\ router[j].method = x.method
        /\ mounted[1] \o router[j].path = x.path}

\* The gates whose comparison a request fails.
Failing(x) ==
    {i \in 1..x.seen :
        /\ router[i].kind = "use"
        /\ x.headers[router[i].key] # router[i].token
        /\ x.headers[router[i].key] # "Bearer " \o router[i].token}

\* C14: a request is answered by the first route on the router that matches
\* it, whenever that route was bound: before Start, between Start and the
\* listen callback, or on the listening server.
C14_RouteBoundAfterStart ==
    \A x \in Exchanges :
        (Matching(x) # {} /\ \A i \in Failing(x) : \E j \in Matching(x) : j < i)
        => /\ x.layer \in Matching(x)
           /\ \A j \in Matching(x) : x.layer <= j
           /\ x.status = 200

\* C14's case: the route that answered is not in the route table, so it was
\* bound after the server began to listen.
C14_Witness ==
    /\ res.layer # 0
    /\ res.status = 200
    /\ Cardinality({j \in 1..res.layer : router[j].kind = "route"}) > Len(log)

----------------------------------------------------------------------------
\* Sending without a delay, and what a waiting response depends on.

\* C15: when the route's delay is missing or 0 and the server-level delay is
\* 0, the handler writes the 200 itself before it returns and schedules no
\* timer.
C15_NoDelayIsSynchronous ==
    [][ ( /\ op'.name = "Request"
          /\ res'.layer # 0
          /\ res'.status # 500
          /\ router[res'.layer].delay \in {undefined, 0}
          /\ _delay = 0 )
        => /\ res'.status = 200
           /\ res'.body = res'.response
           /\ res'.writes = 1
           /\ ~res'.deferred
           /\ timers' = timers ]_vars

\* C15's case: a route bound with delay 0 on a server without a delay
\* answered at once.
C15_Witness ==
    /\ op.name = "Request"
    /\ res.layer # 0
    /\ router[res.layer].delay = 0
    /\ res.g = 0
    /\ res.status = 200
    /\ timers = <<>>

----------------------------------------------------------------------------
\* Waiting responses: a delayed route behind an optional gate, with builder
\* calls made while responses wait.  The event loop runs a callback that is
\* due and the clock moves on, which is what the fairness conditions say.

NextTimer ==
    \/ SetDelay(2)
    \/ SetRoutePrefix(<<"api">>)
    \/ EnableAuth("t1", NoKey)
    \/ BindNewGETRoute(<<"a">>, "A", undefined, 1)
    \/ Start
    \/ Listening
    \/ Request("GET", <<"a">>, [h \in {"authorization"} |-> "t1"])
    \/ Tick
    \/ \E i \in 1..MaxTimers : TimerFire(i)

SpecTimer == Init /\ [][NextTimer]_vars

SpecTimerFair ==
    /\ SpecTimer
    /\ WF_vars(Tick)
    /\ WF_vars(\E i \in 1..MaxTimers : TimerFire(i))

BuilderNames ==
    {"SetDelay", "SetRoutePrefix", "EnableAuth", "BindNewGETRoute",
     "BindNewPOSTRoute", "BindNewPUTRoute", "BindNewDELETERoute",
     "BindNewPATCHRoute", "BindCrudRoutes", "Start"}

\* What tells one waiting exchange from another in this server: the route it
\* reached and the server-level delay it found.
Key(x) == <<x.layer, x.g>>

Keys == (1..MaxStack) \X {0, 2}

\* C16: a scheduled response cannot be cancelled.  No builder call touches
\* the waiting responses; a waiting response leaves only when its callback
\* writes it as the 200 with the value it waited with; and while the process
\* runs every waiting response is written in the end.
C16_DelayedResponseIsSent ==
    /\ [][ /\ op'.name \in BuilderNames => timers' = timers
           /\ \A i \in 1..Len(timers) :
                 \/ \E j \in 1..Len(timers') :
                       /\ Key(timers'[j]) = Key(timers[i])
                       /\ timers'[j].response = timers[i].response
                       /\ timers'[j].wait <= timers[i].wait
                 \/ /\ op'.name = "callback"
                    /\ res'.status = 200
                    /\ res'.body = timers[i].response
                    /\ Key(res') = Key(timers[i]) ]_vars
    /\ \A k \in Keys :
          (\E i \in 1..Len(timers) : Key(timers[i]) = k)
          ~> (op.name = "callback" /\ Key(res) = k /\ res.status = 200)

\* C16's case: a response was written by its callback after the server-level
\* delay and the prefix were changed and a layer was added while it waited.
C16_Witness ==
    /\ op.name = "callback"
    /\ res.status = 200
    /\ res.g # _delay
    /\ res.seen < Len(router)
    /\ _routePrefix # mounted[1]

----------------------------------------------------------------------------
\* A producer that raises: GET routes with a producer that returns or one
\* that raises, with and without maxResults and a delay, and a POST route
\* whose producer raises.

NextThrow ==
    \/ \E s \in {"A", "X"}, n \in {undefined, 2}, d \in {undefined, 1} :
          BindNewGETRoute(<<"a">>, s, n, d)
    \/ BindNewPOSTRoute(<<"a">>, "X", 1)
    \/ Start
    \/ Listening
    \/ \E m \in {"GET", "POST"} : Request(m, <<"a">>, NoHeaders)
    \/ Tick
    \/ \E i \in 1..MaxTimers : TimerFire(i)

SpecThrow == Init /\ [][NextThrow]_vars

\* C17: a request whose route's producer raises gets no 200 from the handler
\* and no response is scheduled for it, whatever the route's maxResults and
\* delay; the server stays mounted and listening, the waiting responses are
\* left alone, and a request to a route whose producer returns is handled as
\* ever, also after a request that failed.
C17_RaisingProducer ==
    [][ (op'.name = "Request" /\ res'.layer # 0)
        => /\ listening' /\ mounted' = mounted /\ router' = router
           /\ IF router[res'.layer].schema \in Raising
              THEN /\ res'.status # 200
                   /\ res'.body = NoResponse
                   /\ ~res'.deferred
                   /\ timers' = timers
              ELSE \/ res'.status = 200 /\ res'.body = res'.response
                                       /\ res'.response.items # <<>>
                   \/ /\ res'.status = 0
                      /\ res'.deferred
                      /\ timers' = Append(timers, timers'[Len(timers')])
                      /\ timers'[Len(timers')].response = res'.response ]_vars

\* C17's case: a request failed in a producer that raises, on a route bound
\* with a delay, while the response of an earlier request still waits.
C17_Witness ==
    /\ op.name = "Request"
    /\ res.layer # 0
    /\ router[res.layer].schema \in Raising
    /\ router[res.layer].delay = 1
    /\ res.status = 500
    /\ listening
    /\ timers # <<>>

----------------------------------------------------------------------------
\* One response per request: a gate, GET routes bound more than once on the
\* same path, one producer without and the other with a delay, a server-level
\* delay, and requests with and without the token.

NextOnce ==
    \/ SetDelay(1)
    \/ EnableAuth("t1", NoKey)
    \/ BindNewGETRoute(<<"a">>, "A", undefined, undefined)
    \/ BindNewGETRoute(<<"a">>, "B", undefined, 1)
    \/ Start
    \/ Listening
    \/ \E h \in TokenHeaders : Request("GET", <<"a">>, h)
    \/ Tick
    \/ \E i \in 1..MaxTimers : TimerFire(i)

SpecOnce == Init /\ [][NextOnce]_vars

\* C18: every request gets at most one response.  A request a gate answered
\* 401 reached no handler and waits for no timer; a request that reached a
\* handler was let through by every gate it met and got its one response
\* from that handler alone, the first route bound for its method and path,
\* written either at once or by the one callback it waits for.
C18_AtMostOneResponse ==
    /\ \A x \in Exchanges :
          /\ x.writes <= 1
          /\ x.status = 401 =>
                x.layer = 0 /\ ~x.deferred /\ x.invoked = 0 /\ x.body = Unauthorized
          /\ x.layer # 0 =>
                /\ \A i \in x.gates : i \notin Failing(x)
                /\ \A j \in Matching(x) : x.layer <= j
                /\ x.invoked = 1
                /\ x.response.items = <<[schema |-> router[x.layer].schema, n |-> 1]>>
                /\ x.writes = IF x.status = 200 THEN 1 ELSE 0
                /\ x.status = 200 => x.body = x.response
    /\ \A i \in 1..Len(timers) :
          timers[i].writes = 0 /\ timers[i].status = 0 /\ timers[i].layer # 0

\* C18's case: the same method and path were bound twice with different
\* producers; the request waited and was then answered once, by the first
\* binding.
C18_Witness ==
    /\ op.name = "callback"
    /\ res.writes = 1
    /\ res.status = 200
    /\ \E j \in Matching(res) :
          j > res.layer /\ router[j].schema # router[res.layer].schema

----------------------------------------------------------------------------
\* The value a delayed response carries.

\* C19: with a delay in effect the handler invokes the producer when the
\* request arrives and the timer takes the resolved value with it; the
\* callback invokes no producer and sends exactly the value its timer has
\* carried since the request arrived.
C19_ValueFixedAtReceipt ==
    [][ /\ (op'.name = "Request" /\ res'.deferred)
           => /\ res'.invoked >= 1
              /\ calls'[router[res'.layer].schema] = res'.invoked
              /\ res'.response.items # <<>>
              /\ Len(timers') = Len(timers) + 1
              /\ timers'[Len(timers')].response = res'.response
              /\ timers'[Len(timers')].invoked = res'.invoked
        /\ \A i \in 1..Len(timers) : \A j \in 1..Len(timers') :
              (op'.name = "Tick" /\ i = j) =>
                  /\ timers'[j].response = timers[i].response
                  /\ timers'[j].invoked = timers[i].invoked
        /\ op'.name \in {"Tick", "callback"} => calls' = NoCalls
        /\ op'.name = "callback"
           => \E i \in 1..Len(timers) :
                 /\ timers' = SubSeq(timers, 1, i - 1) \o
                                SubSeq(timers, i + 1, Len(timers))
                 /\ res'.status = 200
                 /\ res'.body = timers[i].response
                 /\ res'.invoked = timers[i].invoked ]_vars

\* C19's case: an array of two values resolved when the request arrived was
\* sent by the callback after the delay.
C19_Witness ==
    /\ op.name = "callback"
    /\ res.status = 200
    /\ res.held >= 1
    /\ res.invoked = 3
    /\ res.body = [array |-> TRUE,
                   items |-> <<[schema |-> "A", n |-> 2], [schema |-> "A", n |-> 3]>>]
    /\ calls = NoCalls

----------------------------------------------------------------------------
\* The route table against the mount.

\* C20: every path in the route table is the path its route is reachable
\* at, the prefix the router was mounted under joined with the route's
\* pattern, whatever builder calls were made and whenever.
C20_LoggedPathsAreReachable ==
    listening =>
        \A k \in 1..Len(log) :
            /\ k <= Len(Routes)
            /\ log[k].path = mounted[1] \o Routes[k].path

----------------------------------------------------------------------------
\* maxResults = 0.

\* C21: a GET route bound with maxResults = 0 answers as one bound without
\* maxResults: one invocation of the producer per request and that one value
\* as the response, not an empty array; the response of a GET route is an
\* array exactly when maxResults was passed and is not 0.
C21_ZeroMaxResults ==
    /\ \A x \in Exchanges :
          (x.layer # 0 /\ router[x.layer].method = "GET")
          => /\ x.response.array <=> router[x.layer].maxResults \notin {undefined, 0}
             /\ router[x.layer].maxResults = 0
                => /\ x.invoked = 1
                   /\ x.response =
                         [array |-> FALSE,
                          items |-> <<[schema |-> router[x.layer].schema, n |-> 1]>>]
                   /\ x.status = 200 => x.body = x.response
    /\ ( /\ op.name = "Request"
         /\ res.layer # 0
         /\ router[res.layer].method = "GET"
         /\ router[res.layer].maxResults = 0 )
       => calls[router[res.layer].schema] = 1

\* C21's case: a GET route bound with maxResults = 0 answered a request with
\* the one value of its one invocation.
C21_Witness ==
    /\ op.name = "Request"
    /\ res.status = 200
    /\ res.layer # 0
    /\ router[res.layer].method = "GET"
    /\ router[res.layer].maxResults = 0
    /\ res.body = [array |-> FALSE, items |-> <<[schema |-> "B", n |-> 1]>>]
    /\ calls["B"] = 1


====
